---- MODULE Spec2Model ----
(***************************************************************************)
(* Calculator of toolkit_cli.py: safe_eval over the process-wide          *)
(* SAFE_NAMES mapping, and the Calculator class that keeps a history list  *)
(* and rewrites a JSON file on every successful evaluation.                *)
(*                                                                         *)
(* An expression text is represented by its syntax tree; text that the     *)
(* Python parser rejects is a tree holding a Bad node.  Integers are the   *)
(* only numbers; the allow-list is restricted to the two integer-valued    *)
(* builtins abs and max.                                                   *)
(***************************************************************************)
EXTENDS Integers, Sequences, FiniteSets, TLC

(* ---------------------------- bounds ---------------------------------- *)
MaxLit == 1      \* numeric literals of the expressions are 0..MaxLit
MaxHist == 2     \* Calculator.eval is called while the history is shorter
MaxN == 3        \* Calculator.list is called with n in -MaxN..MaxN
MaxWritten == 2  \* a failing write leaves at most this many tokens in the file
MaxFileLen == 3  \* every text of at most this many tokens is a file found at start
MaxTasks == 2    \* TaskManager.add is called while the list is shorter
MaxId == 3       \* ... and while the id it would assign is at most this

(* ------------------------ expression trees ---------------------------- *)
Num(n) == [op |-> "num", v |-> n]
Name(s) == [op |-> "name", id |-> s]
Bin(f, l, r) == [op |-> "bin", f |-> f, l |-> l, r |-> r]
Call(fn, args) == [op |-> "call", fn |-> fn, args |-> args]
Lambda(body) == [op |-> "lambda", body |-> body]
Walrus(s, val) == [op |-> "walrus", id |-> s, val |-> val]
Tup(items) == [op |-> "tuple", items |-> items]
Bad(part) == [op |-> "bad", part |-> part]
\* a string that is not one of the expression texts: its characters
Text(cs) == [op |-> "text", cs |-> cs]
NoExpr == [op |-> "none"]

(* ------------------------ Python values ------------------------------- *)
IntV(n) == [t |-> "int", n |-> n]
BuiltinV(s) == [t |-> "builtin", id |-> s]
LambdaV(body) == [t |-> "lambda", body |-> body]
StrV(e) == [t |-> "str", s |-> e]
TupleV(items) == [t |-> "tuple", items |-> items]
BoolV(b) == [t |-> "bool", b |-> b]
NoneV == [t |-> "none"]

(* SAFE_NAMES as built at import time (restricted to abs and max).         *)
SafeNameSet == {"abs", "max"}
InitialSafeNames == [s \in SafeNameSet |-> BuiltinV(s)]

(* ------------------------ compile() ----------------------------------- *)
RECURSIVE HasBad(_)
\* compile(expr, "<expr>", "eval") raises SyntaxError on text that is not
\* one expression, wherever the malformed part is.
HasBad(e) ==
    CASE e.op = "bad" -> TRUE
      [] e.op = "bin" -> HasBad(e.l) \/ HasBad(e.r)
      [] e.op = "call" -> HasBad(e.fn) \/ \E i \in 1..Len(e.args) : HasBad(e.args[i])
      [] e.op = "lambda" -> HasBad(e.body)
      [] e.op = "walrus" -> HasBad(e.val)
      [] e.op = "tuple" -> \E i \in 1..Len(e.items) : HasBad(e.items[i])
      [] OTHER -> FALSE

RECURSIVE AllNames(_)
\* every identifier written anywhere in the expression text
AllNames(e) ==
    CASE e.op = "name" -> {e.id}
      [] e.op = "bin" -> AllNames(e.l) \cup AllNames(e.r)
      [] e.op = "call" -> AllNames(e.fn) \cup UNION {AllNames(e.args[i]) : i \in 1..Len(e.args)}
      [] e.op = "lambda" -> AllNames(e.body)
      [] e.op = "walrus" -> {e.id} \cup AllNames(e.val)
      [] e.op = "tuple" -> UNION {AllNames(e.items[i]) : i \in 1..Len(e.items)}
      [] e.op = "bad" -> AllNames(e.part)
      [] OTHER -> {}

RECURSIVE co_names(_)
\* code.co_names of the top-level code object: the names it loads or
\* stores itself.  A lambda body is compiled into a code object of its own
\* (a constant of the outer one), so its names are not listed here.
co_names(e) ==
    CASE e.op = "name" -> {e.id}
      [] e.op = "bin" -> co_names(e.l) \cup co_names(e.r)
      [] e.op = "call" -> co_names(e.fn) \cup UNION {co_names(e.args[i]) : i \in 1..Len(e.args)}
      [] e.op = "lambda" -> {}
      [] e.op = "walrus" -> {e.id} \cup co_names(e.val)
      [] e.op = "tuple" -> UNION {co_names(e.items[i]) : i \in 1..Len(e.items)}
      [] OTHER -> {}

(* ------------------------ eval() -------------------------------------- *)
Ok(v, names) == [ok |-> TRUE, val |-> v, exc |-> "", names |-> names]
Raise(x, names) == [ok |-> FALSE, val |-> NoneV, exc |-> x, names |-> names]

Abs(n) == IF n < 0 THEN 0 - n ELSE n
Max(a, b) == IF a >= b THEN a ELSE b
Min(a, b) == IF a <= b THEN a ELSE b

Truthy(v) ==
    /\ ~(v.t = "int" /\ v.n = 0)
    /\ v.t # "none"
    /\ ~(v.t = "bool" /\ ~v.b)
    /\ ~(v.t \in {"list", "tuple"} /\ v.items = <<>>)

\* binary operators on two evaluated operands
ApplyBin(f, a, b, names) ==
    IF a.t # "int" \/ b.t # "int" THEN Raise("TypeError", names)
    ELSE IF f = "+" THEN Ok(IntV(a.n + b.n), names)
    ELSE IF b.n = 0 THEN Raise("ZeroDivisionError", names)
    ELSE Ok(IntV(a.n \div b.n), names)

\* calling one of the builtins of SAFE_NAMES
ApplyBuiltin(s, argv, names) ==
    IF \E i \in 1..Len(argv) : argv[i].t # "int" THEN Raise("TypeError", names)
    ELSE IF s = "abs" /\ Len(argv) = 1 THEN Ok(IntV(Abs(argv[1].n)), names)
    ELSE IF s = "max" /\ Len(argv) = 2 THEN Ok(IntV(Max(argv[1].n, argv[2].n)), names)
    ELSE Raise("TypeError", names)

RECURSIVE Run(_, _, _)
\* eval(code, {"__builtins__": {}}, SAFE_NAMES): the tree is evaluated left
\* to right; names is the locals mapping, threaded through because a
\* walrus at top level stores into it.  scope is "top" for the expression
\* itself and "lambda" inside a lambda body, where a name is looked up in
\* the globals and builtins only, both empty.
Run(e, names, scope) ==
    CASE e.op = "num" -> Ok(IntV(e.v), names)
      [] e.op = "name" ->
            IF scope = "top" /\ e.id \in DOMAIN names
            THEN Ok(names[e.id], names)
            ELSE Raise("NameError", names)
      [] e.op = "lambda" -> Ok(LambdaV(e.body), names)
      [] e.op = "walrus" ->
            LET r == Run(e.val, names, scope)
            IN IF ~r.ok THEN r
               ELSE Ok(r.val, [x \in DOMAIN r.names \cup {e.id} |->
                                 IF x = e.id THEN r.val ELSE r.names[x]])
      [] e.op = "bin" ->
            LET a == Run(e.l, names, scope)
            IN IF ~a.ok THEN a
               ELSE IF e.f = "and" /\ ~Truthy(a.val) THEN a
               ELSE LET b == Run(e.r, a.names, scope)
                    IN IF ~b.ok \/ e.f = "and" THEN b
                       ELSE ApplyBin(e.f, a.val, b.val, b.names)
      [] e.op = "call" ->
            LET f == Run(e.fn, names, scope)
                a1 == IF f.ok /\ Len(e.args) >= 1 THEN Run(e.args[1], f.names, scope) ELSE f
                a2 == IF a1.ok /\ Len(e.args) >= 2 THEN Run(e.args[2], a1.names, scope) ELSE a1
                argv == IF Len(e.args) = 0 THEN <<>>
                        ELSE IF Len(e.args) = 1 THEN <<a1.val>>
                        ELSE <<a1.val, a2.val>>
            IN IF ~a2.ok THEN a2
               ELSE IF f.val.t = "builtin" THEN ApplyBuiltin(f.val.id, argv, a2.names)
               ELSE IF f.val.t = "lambda" /\ Len(argv) = 0
                    THEN Run(f.val.body, a2.names, "lambda")
               ELSE Raise("TypeError", a2.names)
      [] e.op = "tuple" ->
            \* a display of at most two items, evaluated left to right
            LET a1 == IF Len(e.items) >= 1 THEN Run(e.items[1], names, scope)
                      ELSE Ok(NoneV, names)
                a2 == IF a1.ok /\ Len(e.items) >= 2 THEN Run(e.items[2], a1.names, scope)
                      ELSE a1
            IN IF ~a2.ok THEN a2
               ELSE Ok(TupleV(IF Len(e.items) = 0 THEN <<>>
                              ELSE IF Len(e.items) = 1 THEN <<a1.val>>
                              ELSE <<a1.val, a2.val>>), a2.names)
      [] OTHER -> Raise("SyntaxError", names)

\* safe_eval(expr): compile, check co_names against SAFE_NAMES, evaluate.
\* phase records how far the call got: "parse", "check" or "eval".
safe_eval(expr, names) ==
    IF HasBad(expr)
    THEN Raise("SyntaxError", names) @@ [phase |-> "parse"]
    ELSE IF \E s \in co_names(expr) : s \notin DOMAIN names
    THEN Raise("NameError", names) @@ [phase |-> "check"]
    ELSE Run(expr, names, "top") @@ [phase |-> "eval"]

(* ------------------------ json ---------------------------------------- *)
\* The text of the backing file is a sequence of JSON tokens (commas and
\* indentation carry no information and are left out).
Open == [k |-> "["]
Close == [k |-> "]"]
LBrace == [k |-> "{"]
RBrace == [k |-> "}"]
StrTok(e) == [k |-> "str", s |-> e]
NumTok(n) == [k |-> "num", n |-> n]
BoolTok(b) == [k |-> "bool", b |-> b]
NullTok == [k |-> "null"]
ListV(items) == [t |-> "list", items |-> items]
\* a dict with string keys, in insertion order
DictV(keys, vals) == [t |-> "dict", keys |-> keys, vals |-> vals]

RECURSIVE Serializable(_)
\* values json.dumps can encode; a function object raises TypeError
Serializable(v) ==
    CASE v.t \in {"int", "str", "bool", "none"} -> TRUE
      [] v.t \in {"tuple", "list"} -> \A i \in 1..Len(v.items) : Serializable(v.items[i])
      [] v.t = "dict" -> \A i \in 1..Len(v.vals) : Serializable(v.vals[i])
      [] OTHER -> FALSE

RECURSIVE EncodeValue(_), EncodeItems(_), EncodeMembers(_, _)
\* the JSON text of one value; a tuple is written as an array
EncodeValue(v) ==
    CASE v.t = "int" -> <<NumTok(v.n)>>
      [] v.t = "str" -> <<StrTok(v.s)>>
      [] v.t = "bool" -> <<BoolTok(v.b)>>
      [] v.t = "none" -> <<NullTok>>
      [] v.t \in {"tuple", "list"} -> <<Open>> \o EncodeItems(v.items) \o <<Close>>
      [] v.t = "dict" -> <<LBrace>> \o EncodeMembers(v.keys, v.vals) \o <<RBrace>>
EncodeItems(items) ==
    IF items = <<>> THEN <<>>
    ELSE EncodeValue(items[1]) \o EncodeItems(Tail(items))
EncodeMembers(keys, vals) ==
    IF keys = <<>> THEN <<>>
    ELSE <<StrTok(keys[1])>> \o EncodeValue(vals[1]) \o EncodeMembers(Tail(keys), Tail(vals))

RECURSIVE EncodeEntries(_)
\* each (expr, res) tuple is written as a two-element array
EncodeEntries(h) ==
    IF h = <<>> THEN <<>>
    ELSE <<Open>> \o EncodeValue(h[1][1]) \o EncodeValue(h[1][2]) \o <<Close>>
         \o EncodeEntries(Tail(h))

\* json.dumps(self.history, ensure_ascii=False, indent=2)
json_dumps(h) ==
    IF \E i \in 1..Len(h) : ~Serializable(h[i][1]) \/ ~Serializable(h[i][2])
    THEN [ok |-> FALSE, text |-> <<>>]
    ELSE [ok |-> TRUE, text |-> <<Open>> \o EncodeEntries(h) \o <<Close>>]

\* d[key] = val on a dict: a key already present keeps its place
DictSet(d, key, val) ==
    IF \E i \in 1..Len(d.keys) : d.keys[i] = key
    THEN DictV(d.keys, [i \in 1..Len(d.keys) |-> IF d.keys[i] = key THEN val ELSE d.vals[i]])
    ELSE DictV(Append(d.keys, key), Append(d.vals, val))

ParseFail == [ok |-> FALSE, val |-> NoneV, next |-> 0]
RECURSIVE ParseValue(_, _), ParseItems(_, _, _), ParseMembers(_, _, _)
\* one JSON value starting at token i
ParseValue(toks, i) ==
    IF i > Len(toks) THEN ParseFail
    ELSE CASE toks[i].k = "num" -> [ok |-> TRUE, val |-> IntV(toks[i].n), next |-> i + 1]
           [] toks[i].k = "str" -> [ok |-> TRUE, val |-> StrV(toks[i].s), next |-> i + 1]
           [] toks[i].k = "bool" -> [ok |-> TRUE, val |-> BoolV(toks[i].b), next |-> i + 1]
           [] toks[i].k = "null" -> [ok |-> TRUE, val |-> NoneV, next |-> i + 1]
           [] toks[i].k = "[" -> ParseItems(toks, i + 1, <<>>)
           [] toks[i].k = "{" -> ParseMembers(toks, i + 1, DictV(<<>>, <<>>))
           [] OTHER -> ParseFail
\* the items of an array up to its closing bracket
ParseItems(toks, i, acc) ==
    IF i > Len(toks) THEN ParseFail
    ELSE IF toks[i].k = "]" THEN [ok |-> TRUE, val |-> ListV(acc), next |-> i + 1]
    ELSE LET r == ParseValue(toks, i)
         IN IF ~r.ok THEN r ELSE ParseItems(toks, r.next, Append(acc, r.val))
\* the members (a string key, then a value) of an object up to its closing
\* brace; a repeated key takes the later value
ParseMembers(toks, i, acc) ==
    IF i > Len(toks) THEN ParseFail
    ELSE IF toks[i].k = "}" THEN [ok |-> TRUE, val |-> acc, next |-> i + 1]
    ELSE IF toks[i].k # "str" THEN ParseFail
    ELSE LET r == ParseValue(toks, i + 1)
         IN IF ~r.ok THEN r
            ELSE ParseMembers(toks, r.next, DictSet(acc, toks[i].s, r.val))

\* json.loads(text): one value and nothing after it
json_loads(toks) ==
    LET r == ParseValue(toks, 1)
    IN IF r.ok /\ r.next = Len(toks) + 1 THEN r ELSE ParseFail

(* ------------------------ Calculator ----------------------------------- *)
NoFile == [exists |-> FALSE, text |-> <<>>]
FileOf(text) == [exists |-> TRUE, text |-> text]

\* whether a string has at least two characters: the expression texts of
\* this model do, except a lone digit
LongText(s) ==
    CASE s.op = "text" -> Len(s.cs) >= 2
      [] s.op \in {"num", "char", "none"} -> FALSE
      [] OTHER -> TRUE
EmptyText(s) == s.op = "none" \/ (s.op = "text" /\ s.cs = <<>>)

\* the character i (from 1) of a string, as a one-character string
CharAt(s, i) ==
    IF s.op = "text" THEN StrV(Text(<<s.cs[i]>>))
    ELSE StrV([op |-> "char", of |-> s, at |-> i])

\* (h[0], h[1]) for one element h of the loaded document: two items of a
\* list, two characters of a string; any other h raises
FirstTwo(h) ==
    CASE h.t = "list" /\ Len(h.items) >= 2 ->
            [ok |-> TRUE, pair |-> <<h.items[1], h.items[2]>>]
      [] h.t = "str" /\ LongText(h.s) ->
            [ok |-> TRUE, pair |-> <<CharAt(h.s, 1), CharAt(h.s, 2)>>]
      [] OTHER -> [ok |-> FALSE, pair |-> <<>>]

\* what "for h in raw" iterates over: the items of a list, the keys of a
\* dict; a non-empty string yields one-character strings, on which h[1]
\* raises; a number, a boolean or null is not iterable
Elements(raw) ==
    CASE raw.t = "list" -> [ok |-> TRUE, items |-> raw.items]
      [] raw.t = "dict" -> [ok |-> TRUE, items |-> [i \in 1..Len(raw.keys) |-> StrV(raw.keys[i])]]
      [] raw.t = "str" /\ EmptyText(raw.s) -> [ok |-> TRUE, items |-> <<>>]
      [] raw.t = "str" -> [ok |-> TRUE, items |-> <<StrV(Text(<<"c">>))>>]
      [] OTHER -> [ok |-> FALSE, items |-> <<>>]

\* Calculator._load: the history read from the file; an absent file and any
\* exception while reading or converting give an empty history.
load_(f) ==
    IF ~f.exists THEN <<>>
    ELSE LET raw == json_loads(f.text)
             els == Elements(raw.val)
         IN IF ~raw.ok \/ ~els.ok THEN <<>>
            ELSE IF \E i \in 1..Len(els.items) : ~FirstTwo(els.items[i]).ok
            THEN <<>>
            ELSE [i \in 1..Len(els.items) |-> FirstTwo(els.items[i]).pair]

\* write_text opening the file in append mode
write_text_append(f, text, io, k) ==
    IF io = "ok" THEN FileOf(f.text \o text)
    ELSE IF io = "open" THEN f
    ELSE FileOf(SubSeq(text, 1, Min(k, Len(text))))

\* write_text removing the file when the write fails
write_text_unlink(f, text, io, k) ==
    IF io = "ok" THEN FileOf(text)
    ELSE IF io = "open" THEN f
    ELSE NoFile

\* Path.write_text(data): the file is opened for writing, which truncates
\* it, and the data is written.  io is what the operating system does:
\* "ok"; "open" fails before the file is touched; "write" fails after the
\* first k tokens (all of them when the text is shorter) reached the file.
write_text(f, text, io, k) ==
    IF io = "ok" THEN FileOf(text)
    ELSE IF io = "open" THEN f
    ELSE FileOf(SubSeq(text, 1, Min(k, Len(text))))

\* _save merging the entries found in the file that the instance lacks
SaveSourceMerged(h, f) ==
    SelectSeq(load_(f), LAMBDA e : \A i \in 1..Len(h) : h[i] # e) \o h

\* Calculator._save: what is serialised is self.history, whatever the file
\* holds at that moment
SaveSource(h, f) == h

\* eval inserting the new entry at the front of the history
EvalHistoryPrepend(h, expr, r) ==
    IF r.ok THEN <<(<<StrV(expr), r.val>>)>> \o h ELSE h

\* eval recording an entry whether or not safe_eval returned
EvalHistoryAlways(h, expr, r) == Append(h, <<StrV(expr), r.val>>)

\* Calculator.eval, lines 401-402: the append is reached only when safe_eval
\* returned.
EvalHistory(h, expr, r) ==
    IF r.ok THEN Append(h, <<StrV(expr), r.val>>) ELSE h

\* self.history[:n], the first entries instead of the last
PySliceFirst(h, n) == SubSeq(h, 1, Min(n, Len(h)))

\* self.history[-n:], a new list
PySlice(h, n) ==
    LET start == IF 0 - n < 0 THEN Max(Len(h) - n, 0) ELSE Min(0 - n, Len(h))
    IN SubSeq(h, start + 1, Len(h))

\* list returning self.history itself
list_NoCopy(h, n) == [items |-> h, same |-> TRUE]

\* Calculator.list: the returned list and whether it is the history object
list_(h, n) == [items |-> PySlice(h, n), same |-> FALSE]

(* ------------------------ the other JSON managers ----------------------- *)
EmptyDict == DictV(<<>>, <<>>)
HasKey(d, key) == \E i \in 1..Len(d.keys) : d.keys[i] = key
Get(d, key, default) ==
    IF HasKey(d, key) THEN d.vals[CHOOSE i \in 1..Len(d.keys) : d.keys[i] = key]
    ELSE default

Key(name) == Text(<<name>>)
TaskFields == {"id", "title", "priority", "due", "done", "tags"}
NoteFields == {"id", "title", "body", "tags", "created_at"}

\* Task(**t): t must be a mapping whose keys are field names and which
\* gives id and title; the other fields take their defaults.  The values
\* are not checked.
TaskFrom(t) ==
    IF t.t # "dict"
       \/ (\E i \in 1..Len(t.keys) : t.keys[i] \notin {Key(f) : f \in TaskFields})
       \/ ~HasKey(t, Key("id")) \/ ~HasKey(t, Key("title"))
    THEN [ok |-> FALSE, obj |-> NoneV]
    ELSE [ok |-> TRUE,
          obj |-> [id |-> Get(t, Key("id"), NoneV),
                   title |-> Get(t, Key("title"), NoneV),
                   priority |-> Get(t, Key("priority"), IntV(3)),
                   due |-> Get(t, Key("due"), NoneV),
                   done |-> Get(t, Key("done"), BoolV(FALSE)),
                   tags |-> Get(t, Key("tags"), ListV(<<>>))]]

\* Note(**n): id, title and body are required
NoteFrom(n) ==
    IF n.t # "dict"
       \/ (\E i \in 1..Len(n.keys) : n.keys[i] \notin {Key(f) : f \in NoteFields})
       \/ ~HasKey(n, Key("id")) \/ ~HasKey(n, Key("title")) \/ ~HasKey(n, Key("body"))
    THEN [ok |-> FALSE, obj |-> NoneV]
    ELSE [ok |-> TRUE,
          obj |-> [id |-> Get(n, Key("id"), NoneV),
                   title |-> Get(n, Key("title"), NoneV),
                   body |-> Get(n, Key("body"), NoneV),
                   tags |-> Get(n, Key("tags"), ListV(<<>>)),
                   created_at |-> Get(n, Key("created_at"), StrV(Key("now")))]]

NoExc(v) == [exc |-> "", val |-> v]

\* TaskManager._load without the try block
tasks_load_unguarded(f) ==
    IF ~f.exists THEN NoExc(<<>>)
    ELSE LET raw == json_loads(f.text)
             els == Elements(raw.val)
         IN IF ~raw.ok THEN [exc |-> "JSONDecodeError", val |-> <<>>]
            ELSE IF ~els.ok \/ \E i \in 1..Len(els.items) : ~TaskFrom(els.items[i]).ok
            THEN [exc |-> "TypeError", val |-> <<>>]
            ELSE NoExc([i \in 1..Len(els.items) |-> TaskFrom(els.items[i]).obj])

\* TaskManager._load: the tasks read from the file and the exception that
\* leaves the constructor (none: every Exception is caught)
tasks_load(f) ==
    IF ~f.exists THEN NoExc(<<>>)
    ELSE LET raw == json_loads(f.text)
             els == Elements(raw.val)
         IN IF ~raw.ok \/ ~els.ok THEN NoExc(<<>>)
            ELSE IF \E i \in 1..Len(els.items) : ~TaskFrom(els.items[i]).ok
            THEN NoExc(<<>>)
            ELSE NoExc([i \in 1..Len(els.items) |-> TaskFrom(els.items[i]).obj])

\* NotesManager._load
notes_load(f) ==
    IF ~f.exists THEN NoExc(<<>>)
    ELSE LET raw == json_loads(f.text)
             els == Elements(raw.val)
         IN IF ~raw.ok \/ ~els.ok THEN NoExc(<<>>)
            ELSE IF \E i \in 1..Len(els.items) : ~NoteFrom(els.items[i]).ok
            THEN NoExc(<<>>)
            ELSE NoExc([i \in 1..Len(els.items) |-> NoteFrom(els.items[i]).obj])

\* HabitTracker._load: raw.items() needs a dict; each name is bound to
\* Habit(name, records) whatever the records are
habits_load(f) ==
    IF ~f.exists THEN NoExc(EmptyDict)
    ELSE LET raw == json_loads(f.text)
         IN IF ~raw.ok \/ raw.val.t # "dict" THEN NoExc(EmptyDict)
            ELSE NoExc(raw.val)

(* ------------------------ inputs --------------------------------------- *)
Lits == {Num(n) : n \in 0..MaxLit}
Exprs ==
    {Bin("//", Num(1), a) : a \in Lits}                    \* 1//0, 1//1
    \cup {Call(Name(s), <<Num(1)>>) : s \in {"abs", "max", "open"}}
    \cup {Lambda(Name("foobar")),                          \* lambda: foobar
          Call(Lambda(Name("foobar")), <<>>),              \* (lambda: foobar)()
          Bin("and", Lambda(Name("foobar")), Num(1)),      \* (lambda: foobar) and 1
          Bin("+", Name("foobar"), Num(1)),                \* foobar + 1
          Bin("+", Bin("//", Num(1), Num(0)), Name("foobar")),  \* 1//0 + foobar
          Walrus("abs", Num(1)),                           \* (abs := 1)
          Walrus("foobar", Num(1)),                        \* (foobar := 1)
          Bin("//", Walrus("abs", Num(1)), Num(0)),        \* (abs := 1)//0
          Tup(<<Num(1), Num(1)>>),                         \* 1, 1
          Bad(Num(1)), Bad(Name("foobar"))}                \* 1 +, foobar +

Junk == <<StrV(NoExpr), NoneV>>

\* the tokens of the files found at start, and a few longer files: a
\* history as _save writes it, a record of three fields, a dict, a task
\* list, a note list and a habit dict
FileToks == {Open, Close, LBrace, RBrace, StrTok(Text(<<"a", "b">>)), NumTok(1)}
SampleTexts ==
    {<<Open, Open, StrTok(Bin("//", Num(1), Num(1))), NumTok(1), Close, Close>>,
     <<Open, Open, StrTok(Bin("//", Num(1), Num(1))), NumTok(1), NumTok(1), Close, Close>>,
     <<LBrace, StrTok(Text(<<"a", "b">>)), NumTok(1), RBrace>>,
     <<Open, LBrace, StrTok(Key("id")), NumTok(1), StrTok(Key("title")),
       StrTok(Text(<<"a", "b">>)), RBrace, Close>>,
     <<Open, LBrace, StrTok(Key("id")), NumTok(1), StrTok(Key("title")),
       StrTok(Text(<<"a", "b">>)), StrTok(Key("body")), StrTok(Text(<<>>)), RBrace, Close>>,
     <<LBrace, StrTok(Text(<<"a", "b">>)), LBrace, StrTok(Key("2099-01-01")),
       BoolTok(TRUE), RBrace, RBrace>>}
InitialFiles ==
    {NoFile}
    \cup {FileOf(t) : t \in UNION {[1..n -> FileToks] : n \in 0..MaxFileLen}}
    \cup {FileOf(t) : t \in SampleTexts}

(* ------------------------ state ---------------------------------------- *)
VARIABLES
    SAFE_NAMES,   \* the module-level mapping, the locals of every eval
    history,      \* Calculator.history
    file,         \* the file at Calculator.path
    outcome,      \* the last call: what it was, its argument, how it ended
    ret,          \* the value the last call returned, when it was eval
    retList,      \* the list the last call returned, when it was list
    alias,        \* whether that list is the history object itself
    nOk,          \* evaluations since construction in which safe_eval returned
    startedEmpty, \* the history was empty after construction
    lastSaved,    \* the sequence this instance wrote in its last successful save
    history2,     \* the history of a second Calculator on the same path
    who,          \* the instance (1 or 2) the last Calculator call was made on
    tasks,        \* TaskManager.tasks
    notes,        \* NotesManager.notes
    habits,       \* HabitTracker.habits
    mgrOut        \* the last call on one of these three managers

VARIABLES
    board,        \* TicTacToe.board, a cell per position 0..8
    current,      \* TicTacToe.current
    gameOut       \* the last call on the game: its name, argument and result

calcVars ==
    <<SAFE_NAMES, history, file, outcome, ret, retList, alias, nOk, startedEmpty, lastSaved,
      history2, who>>
mgrVars == <<tasks, notes, habits, mgrOut>>
VARIABLES
    pom,          \* the running call of Timer.pomodoro
    called        \* the countdowns it has made, in order

gameVars == <<board, current, gameOut>>
timerVars == <<pom, called>>
vars == <<calcVars, mgrVars, gameVars, timerVars>>

\* a call of Timer.pomodoro: where it is, its arguments and the loop variable
Pom(pc, work, short_break, cycles, i) ==
    [pc |-> pc, work |-> work, short_break |-> short_break, cycles |-> cycles, i |-> i]
\* Timer.pomodoro has not been called
TimerIdle ==
    /\ pom = Pom("idle", 0, 0, 0, 0)
    /\ called = <<>>

Cells == 0..8
Marks == {"X", "O"}
\* [" "] * 9
NewBoard == [c \in Cells |-> " "]
GameOut(op, pos, r) == [op |-> op, pos |-> pos, ret |-> r]
\* TicTacToe(): an empty board, X to play
GameIdle ==
    /\ board = NewBoard
    /\ current = "X"
    /\ gameOut = GameOut("none", 0, NoneV)

MgrOut(op, id, r, exc) == [op |-> op, id |-> id, ret |-> r, exc |-> exc]
\* no manager other than the Calculator has been constructed
MgrIdle ==
    /\ tasks = <<>>
    /\ notes = <<>>
    /\ habits = EmptyDict
    /\ mgrOut = MgrOut("none", 0, NoneV, "")

NotSaved == [valid |-> FALSE, h |-> <<>>]
SavedAs(h) == [valid |-> TRUE, h |-> h]

Outcome(op, expr, n, phase, exc) ==
    [op |-> op, expr |-> expr, n |-> n, phase |-> phase, exc |-> exc]

\* a process that has imported the module and constructed a Calculator on a
\* path where no file exists
Init ==
    /\ SAFE_NAMES = InitialSafeNames
    /\ file = NoFile
    /\ history = load_(NoFile)
    /\ outcome = Outcome("init", NoExpr, 0, "done", "")
    /\ ret = NoneV
    /\ retList = <<>>
    /\ alias = FALSE
    /\ nOk = 0
    /\ startedEmpty = TRUE
    /\ lastSaved = NotSaved
    /\ history2 = <<>>
    /\ who = 1
    /\ MgrIdle
    /\ GameIdle
    /\ TimerIdle

\* Calculator.eval(expr) with the operating system answering io (and k) to
\* the write of _save
CalcEval(expr, io, k) ==
    /\ Len(history) < MaxHist
    /\ LET r == safe_eval(expr, SAFE_NAMES)
           h2 == EvalHistory(history, expr, r)
           d == json_dumps(SaveSource(h2, file))
       IN /\ SAFE_NAMES' = r.names
          /\ history' = h2
          /\ nOk' = IF r.ok THEN nOk + 1 ELSE nOk
          /\ lastSaved' = IF r.ok /\ d.ok /\ io = "ok" THEN SavedAs(h2) ELSE lastSaved
          /\ IF ~r.ok
             THEN /\ io = "ok" /\ k = 0
                  /\ file' = file
                  /\ ret' = NoneV
                  /\ outcome' = Outcome("eval", expr, 0, r.phase, r.exc)
             ELSE IF ~d.ok
             THEN /\ io = "ok" /\ k = 0
                  /\ file' = file
                  /\ ret' = NoneV
                  /\ outcome' = Outcome("eval", expr, 0, "save", "TypeError")
             ELSE /\ (io # "write" => k = 0)
                  /\ file' = write_text(file, d.text, io, k)
                  /\ ret' = IF io = "ok" THEN r.val ELSE NoneV
                  /\ outcome' = IF io = "ok"
                                THEN Outcome("eval", expr, 0, "done", "")
                                ELSE Outcome("eval", expr, 0, "save", "OSError")
    /\ retList' = <<>>
    /\ alias' = FALSE
    /\ who' = 1
    /\ UNCHANGED <<startedEmpty, history2, mgrVars, gameVars, timerVars>>

\* Calculator.list(n)
CalcList(n) ==
    /\ retList' = list_(history, n).items
    /\ alias' = list_(history, n).same
    /\ outcome' = Outcome("list", NoExpr, n, "done", "")
    /\ ret' = NoneV
    /\ who' = 1
    /\ UNCHANGED <<SAFE_NAMES, history, file, nOk, startedEmpty, lastSaved, history2, mgrVars, gameVars, timerVars>>

\* the caller appends to the list it got from Calculator.list
MutateReturned ==
    /\ outcome.op = "list"
    /\ retList' = Append(retList, Junk)
    /\ history' = IF alias THEN Append(history, Junk) ELSE history
    /\ outcome' = Outcome("mutate", NoExpr, 0, "done", "")
    /\ who' = 1
    /\ UNCHANGED <<SAFE_NAMES, file, ret, alias, nOk, startedEmpty, lastSaved, history2, mgrVars, gameVars, timerVars>>

\* Calculator(path): a new instance over the same file replaces the old one
CalcInit ==
    /\ outcome.op # "init"
    /\ history' = load_(file)
    /\ startedEmpty' = (load_(file) = <<>>)
    /\ nOk' = 0
    /\ lastSaved' = NotSaved
    /\ outcome' = Outcome("init", NoExpr, 0, "done", "")
    /\ ret' = NoneV
    /\ retList' = <<>>
    /\ alias' = FALSE
    /\ who' = 1
    /\ UNCHANGED <<SAFE_NAMES, file, history2, mgrVars, gameVars, timerVars>>

Next ==
    \/ \E expr \in Exprs, io \in {"ok", "open", "write"}, k \in 0..MaxWritten :
          CalcEval(expr, io, k)
    \/ \E n \in (0 - MaxN)..MaxN : CalcList(n)
    \/ MutateReturned
    \/ CalcInit

Spec == Init /\ [][Next]_vars

(* ------------------------ two instances on one file --------------------- *)
Exprs2 ==
    {Bin("//", Num(1), a) : a \in Lits} \cup {Call(Name("abs"), <<Num(1)>>)}

\* Calculator.eval(expr) on the second instance
CalcEval2(expr, io, k) ==
    /\ Len(history2) < MaxHist
    /\ LET r == safe_eval(expr, SAFE_NAMES)
           h2 == EvalHistory(history2, expr, r)
           d == json_dumps(SaveSource(h2, file))
       IN /\ SAFE_NAMES' = r.names
          /\ history2' = h2
          /\ IF ~r.ok
             THEN /\ io = "ok" /\ k = 0
                  /\ file' = file
                  /\ ret' = NoneV
                  /\ outcome' = Outcome("eval", expr, 0, r.phase, r.exc)
             ELSE IF ~d.ok
             THEN /\ io = "ok" /\ k = 0
                  /\ file' = file
                  /\ ret' = NoneV
                  /\ outcome' = Outcome("eval", expr, 0, "save", "TypeError")
             ELSE /\ (io # "write" => k = 0)
                  /\ file' = write_text(file, d.text, io, k)
                  /\ ret' = IF io = "ok" THEN r.val ELSE NoneV
                  /\ outcome' = IF io = "ok"
                                THEN Outcome("eval", expr, 0, "done", "")
                                ELSE Outcome("eval", expr, 0, "save", "OSError")
    /\ who' = 2
    /\ retList' = <<>>
    /\ alias' = FALSE
    /\ UNCHANGED <<history, nOk, startedEmpty, lastSaved, mgrVars, gameVars, timerVars>>

\* Calculator(path) replacing the second instance
CalcInit2 ==
    /\ ~(outcome.op = "init" /\ who = 2)
    /\ history2' = load_(file)
    /\ outcome' = Outcome("init", NoExpr, 0, "done", "")
    /\ who' = 2
    /\ ret' = NoneV
    /\ retList' = <<>>
    /\ alias' = FALSE
    /\ UNCHANGED <<SAFE_NAMES, file, history, nOk, startedEmpty, lastSaved, mgrVars, gameVars, timerVars>>

Next2 ==
    \/ \E expr \in Exprs2, io \in {"ok", "open", "write"}, k \in 0..MaxWritten :
          CalcEval(expr, io, k)
    \/ \E expr \in Exprs2, io \in {"ok", "open", "write"}, k \in 0..MaxWritten :
          CalcEval2(expr, io, k)
    \/ CalcInit
    \/ CalcInit2

\* both instances constructed while no file exists
Spec2 == Init /\ [][Next2]_vars

(* ------------------------ TaskManager ----------------------------------- *)
\* dataclasses.asdict(t)
AsDict(t) ==
    DictV(<<Key("id"), Key("title"), Key("priority"), Key("due"), Key("done"), Key("tags")>>,
          <<t.id, t.title, t.priority, t.due, t.done, t.tags>>)

\* json.dumps([dataclasses.asdict(t) for t in self.tasks], ...)
tasks_dumps(ts) ==
    LET doc == ListV([i \in 1..Len(ts) |-> AsDict(ts[i])])
    IN IF Serializable(doc) THEN [ok |-> TRUE, text |-> EncodeValue(doc)]
       ELSE [ok |-> FALSE, text |-> <<>>]

\* TaskManager._save: the file afterwards and the exception raised, if any
SaveTasks(f, ts, io, k) ==
    LET d == tasks_dumps(ts)
    IN IF ~d.ok THEN [file |-> f, exc |-> "TypeError"]
       ELSE [file |-> write_text(f, d.text, io, k),
             exc |-> IF io = "ok" THEN "" ELSE "OSError"]

RECURSIVE MaxOf(_)
MaxOf(S) == IF S = {} THEN 0 ELSE LET x == CHOOSE y \in S : TRUE
                                 IN Max(x, MaxOf(S \ {x}))

\* ids taken from the length of the list
NextIdByLen(ts) == Len(ts) + 1

\* TaskManager._next_id: max((t.id for t in self.tasks), default=0) + 1
NextId(ts) == MaxOf({ts[i].id.n : i \in 1..Len(ts)}) + 1

\* the task add builds: priority clamped to 1..5, tags or []
NewTask(id, title, priority, due, tags) ==
    [id |-> IntV(id), title |-> title,
     priority |-> IntV(Max(1, Min(5, priority))),
     due |-> due, done |-> BoolV(FALSE),
     tags |-> IF Truthy(tags) THEN tags ELSE ListV(<<>>)]

HasId(ts, id) == \E i \in 1..Len(ts) : ts[i].id = IntV(id)
\* the position of the first task with that id
FirstWithId(ts, id) == CHOOSE i \in 1..Len(ts) :
                          ts[i].id = IntV(id) /\ \A j \in 1..(i - 1) : ts[j].id # IntV(id)

\* setattr for every given field, None included
ApplyFieldsWithNone(t, fields) ==
    [f \in TaskFields |-> IF f \in DOMAIN fields THEN fields[f] ELSE t[f]]

\* edit, lines 237-239: setattr for every given name that is an attribute
\* of the task and whose value is not None
ApplyFields(t, fields) ==
    [f \in TaskFields |->
        IF f \in DOMAIN fields /\ fields[f] # NoneV THEN fields[f] ELSE t[f]]

TitleA == StrV(Text(<<"A">>))
TitleB == StrV(Text(<<"B">>))
AddPriorities == {0, 9}
EditInputs ==
    {[priority |-> IntV(9), title |-> NoneV],
     [id |-> IntV(1)],
     [bogus |-> IntV(1)]}
\* the writes of tasks.json succeed in this specification (a failing
\* write_text is followed on the Calculator)
TaskIo == {<<"ok", 0>>}

\* TaskManager.add(title, priority)
TaskAdd(title, priority, io, k) ==
    /\ Len(tasks) < MaxTasks
    /\ NextId(tasks) <= MaxId
    /\ LET t == NewTask(NextId(tasks), title, priority, NoneV, NoneV)
           sv == SaveTasks(file, Append(tasks, t), io, k)
       IN /\ tasks' = Append(tasks, t)
          /\ file' = sv.file
          /\ mgrOut' = MgrOut("add", 0, IF sv.exc = "" THEN t ELSE NoneV, sv.exc)
    /\ UNCHANGED <<SAFE_NAMES, history, outcome, ret, retList, alias, nOk, startedEmpty,
                   lastSaved, history2, who, notes, habits, gameVars, timerVars>>

\* TaskManager.toggle(task_id)
TaskToggle(id, io, k) ==
    /\ IF HasId(tasks, id)
       THEN LET p == FirstWithId(tasks, id)
                ts == [tasks EXCEPT ![p].done = BoolV(~Truthy(tasks[p].done))]
                sv == SaveTasks(file, ts, io, k)
            IN /\ tasks' = ts
               /\ file' = sv.file
               /\ mgrOut' = MgrOut("toggle", id,
                                    IF sv.exc = "" THEN BoolV(TRUE) ELSE NoneV, sv.exc)
       ELSE /\ io = "ok" /\ k = 0
            /\ UNCHANGED <<tasks, file>>
            /\ mgrOut' = MgrOut("toggle", id, BoolV(FALSE), "")
    /\ UNCHANGED <<SAFE_NAMES, history, outcome, ret, retList, alias, nOk, startedEmpty,
                   lastSaved, history2, who, notes, habits, gameVars, timerVars>>

\* TaskManager.delete(task_id)
TaskDelete(id, io, k) ==
    /\ LET ts == SelectSeq(tasks, LAMBDA t : t.id # IntV(id))
           sv == SaveTasks(file, ts, io, k)
       IN /\ tasks' = ts
          /\ IF Len(ts) # Len(tasks)
             THEN /\ file' = sv.file
                  /\ mgrOut' = MgrOut("delete", id,
                                       IF sv.exc = "" THEN BoolV(TRUE) ELSE NoneV, sv.exc)
             ELSE /\ io = "ok" /\ k = 0
                  /\ file' = file
                  /\ mgrOut' = MgrOut("delete", id, BoolV(FALSE), "")
    /\ UNCHANGED <<SAFE_NAMES, history, outcome, ret, retList, alias, nOk, startedEmpty,
                   lastSaved, history2, who, notes, habits, gameVars, timerVars>>

\* TaskManager.edit(task_id, **fields)
TaskEdit(id, fields, io, k) ==
    /\ IF HasId(tasks, id)
       THEN LET p == FirstWithId(tasks, id)
                ts == [tasks EXCEPT ![p] = ApplyFields(tasks[p], fields)]
                sv == SaveTasks(file, ts, io, k)
            IN /\ tasks' = ts
               /\ file' = sv.file
               /\ mgrOut' = [fields |-> fields] @@
                             MgrOut("edit", id,
                                    IF sv.exc = "" THEN BoolV(TRUE) ELSE NoneV, sv.exc)
       ELSE /\ io = "ok" /\ k = 0
            /\ UNCHANGED <<tasks, file>>
            /\ mgrOut' = [fields |-> fields] @@ MgrOut("edit", id, BoolV(FALSE), "")
    /\ UNCHANGED <<SAFE_NAMES, history, outcome, ret, retList, alias, nOk, startedEmpty,
                   lastSaved, history2, who, notes, habits, gameVars, timerVars>>

NextTasks ==
    \/ \E p \in AddPriorities, c \in TaskIo : TaskAdd(TitleA, p, c[1], c[2])
    \/ \E id \in 1..MaxId, c \in TaskIo : TaskToggle(id, c[1], c[2])
    \/ \E id \in 1..MaxId, c \in TaskIo : TaskDelete(id, c[1], c[2])
    \/ \E id \in 1..MaxId, fields \in EditInputs, c \in TaskIo :
          TaskEdit(id, fields, c[1], c[2])

\* a TaskManager constructed on a path where no file exists
InitTasks ==
    /\ Init
    /\ tasks = tasks_load(NoFile).val

SpecTasks == InitTasks /\ [][NextTasks]_vars

(* ------------------------ construction over any file -------------------- *)
\* TaskManager(path)
TaskInit ==
    /\ mgrOut.op # "task_init"
    /\ tasks' = tasks_load(file).val
    /\ mgrOut' = MgrOut("task_init", 0, NoneV, tasks_load(file).exc)
    /\ UNCHANGED <<calcVars, notes, habits, gameVars, timerVars>>

\* NotesManager(path)
NotesInit ==
    /\ mgrOut.op # "notes_init"
    /\ notes' = notes_load(file).val
    /\ mgrOut' = MgrOut("notes_init", 0, NoneV, notes_load(file).exc)
    /\ UNCHANGED <<calcVars, tasks, habits, gameVars, timerVars>>

\* HabitTracker(path)
HabitInit ==
    /\ mgrOut.op # "habits_init"
    /\ habits' = habits_load(file).val
    /\ mgrOut' = MgrOut("habits_init", 0, NoneV, habits_load(file).exc)
    /\ UNCHANGED <<calcVars, tasks, notes, gameVars, timerVars>>

\* a process that has imported the module, with any of the files at the
\* path the managers are about to be constructed on
InitLoad ==
    /\ SAFE_NAMES = InitialSafeNames
    /\ file \in InitialFiles
    /\ history = <<>>
    /\ outcome = Outcome("start", NoExpr, 0, "done", "")
    /\ ret = NoneV
    /\ retList = <<>>
    /\ alias = FALSE
    /\ nOk = 0
    /\ startedEmpty = TRUE
    /\ lastSaved = NotSaved
    /\ history2 = <<>>
    /\ who = 1
    /\ MgrIdle
    /\ GameIdle
    /\ TimerIdle

NextLoad ==
    \/ CalcInit
    \/ TaskInit
    \/ NotesInit
    \/ HabitInit

SpecLoad == InitLoad /\ [][NextLoad]_vars

(* ------------------------ properties ----------------------------------- *)
IsPrefix(s, t) == Len(s) <= Len(t) /\ SubSeq(t, 1, Len(s)) = s

EvaluatorFailed(o) ==
    o.op = "eval" /\ o.phase \in {"parse", "check", "eval"}
SaveFailed(o) == o.op = "eval" /\ o.phase = "save"
Returned(o) == o.op = "eval" /\ o.phase = "done"

\* C1: when safe_eval fails (syntax error, disallowed name, runtime error),
\* Calculator.eval raises that error, returns nothing, and the history and
\* the backing file are what they were before the call.
C1_EvaluatorFailureLeavesHistory ==
    [][EvaluatorFailed(outcome') =>
          /\ outcome'.exc \in {"SyntaxError", "NameError", "ZeroDivisionError", "TypeError"}
          /\ ret' = NoneV
          /\ history' = history
          /\ file' = file]_vars

C1_Witness ==
    /\ EvaluatorFailed(outcome)
    /\ outcome.exc = "ZeroDivisionError"
    /\ history # <<>>
    /\ file.exists

\* C2: every parsable expression that mentions a name outside the
\* allow-list, wherever the name stands, fails with NameError, returns no
\* value and adds no history entry.
C2_UnsafeNameAlwaysRejected ==
    [][(/\ outcome'.op = "eval"
        /\ ~HasBad(outcome'.expr)
        /\ AllNames(outcome'.expr) \ SafeNameSet # {}) =>
          /\ outcome'.exc = "NameError"
          /\ ret' = NoneV
          /\ history' = history]_vars

\* C3: evaluation is started only on expressions all of whose identifiers,
\* those inside lambda bodies included, are allow-listed.
C3_EvaluationOnlyOfCheckedNames ==
    [][(outcome'.op = "eval" /\ outcome'.phase \in {"eval", "save", "done"}) =>
          AllNames(outcome'.expr) \subseteq SafeNameSet]_vars

\* C4: SAFE_NAMES binds every allow-listed name to the value it had at
\* process start, whatever has been evaluated.
C4_AllowListNeverMutated == SAFE_NAMES = InitialSafeNames

\* C5: at every point of the process each expression evaluates to the
\* outcome (value, or kind of failure) it has at process start.
C5_EvaluateIsPure ==
    \A e \in Exprs :
        LET now == safe_eval(e, SAFE_NAMES)
            start == safe_eval(e, InitialSafeNames)
        IN now.ok = start.ok /\ now.exc = start.exc /\ now.val = start.val

\* C6: on a Calculator that started empty and has had n evaluations whose
\* safe_eval returned, list(k) with k >= 1 returns the last min(k, n)
\* history entries, oldest first.
C6_ListReturnsLastEntries ==
    (outcome.op = "list" /\ outcome.n >= 1 /\ startedEmpty) =>
        LET m == IF outcome.n <= nOk THEN outcome.n ELSE nOk
        IN /\ Len(history) = nOk
           /\ Len(retList) = m
           /\ \A i \in 1..m : retList[i] = history[nOk - m + i]

C6_Witness ==
    /\ outcome.op = "list" /\ startedEmpty
    /\ outcome.n = 1 /\ nOk = 2
    /\ history[1] # history[2]
    /\ retList = <<history[2]>>

\* C7: list(n) with n <= 0 returns an empty sequence, whatever the history.
C7_NonPositiveGivesEmpty ==
    (outcome.op = "list" /\ outcome.n <= 0) => retList = <<>>

\* C8: list(n) changes neither the history nor the file, and a change made
\* to the list it returned does not change the history.
C8_ListIsReadOnly ==
    [][/\ outcome'.op = "list" => (history' = history /\ file' = file)
       /\ outcome'.op = "mutate" =>
             (retList' # retList /\ history' = history /\ file' = file)]_vars

C8_Witness ==
    /\ outcome.op = "mutate"
    /\ Len(history) >= 2
    /\ Len(retList) = Len(history) + 1

\* C9: an eval that returns has appended (expr, result) to the history,
\* returns that result, has left in the file the whole history, and a
\* list(1) called next returns that one pair.
C9_ReturnedEvalAppendsAndSaves ==
    [][/\ Returned(outcome') =>
             /\ ret' # NoneV
             /\ history' = Append(history, <<StrV(outcome'.expr), ret'>>)
             /\ file'.exists
             /\ LET doc == json_loads(file'.text)
                IN /\ doc.ok /\ doc.val.t = "list"
                   /\ Len(doc.val.items) = Len(history')
                   /\ \A i \in 1..Len(history') :
                         /\ doc.val.items[i].t = "list"
                         /\ Len(doc.val.items[i].items) = 2
                         /\ doc.val.items[i].items[1] = history'[i][1]
                         /\ history'[i][2].t = "int" =>
                               doc.val.items[i].items[2] = history'[i][2]
                         /\ history'[i][2].t = "tuple" =>
                               doc.val.items[i].items[2] = ListV(history'[i][2].items)
       /\ (Returned(outcome) /\ outcome'.op = "list" /\ outcome'.n = 1) =>
             retList' = << <<StrV(outcome.expr), ret>> >>]_vars

C9_Witness ==
    /\ outcome.op = "list" /\ outcome.n = 1
    /\ Len(history) >= 2
    /\ file.exists /\ load_(file) = history
    /\ retList = <<history[Len(history)]>>

NewEntryAppended ==
    /\ Len(history') = Len(history) + 1
    /\ SubSeq(history', 1, Len(history)) = history
    /\ history'[Len(history')][1] = StrV(outcome'.expr)

\* C10 as stated: when _save fails after a successful evaluation, the
\* error is raised, the history has the new entry and the file still holds
\* what the last successful save wrote.
C10_FileKeepsLastSave ==
    [][SaveFailed(outcome') =>
          /\ outcome'.exc \in {"TypeError", "OSError"}
          /\ NewEntryAppended
          /\ file' = file]_vars

\* C10 amended: when _save fails after a successful evaluation, the error
\* is raised and the history has the new entry; the file is untouched when
\* the failure precedes the write (serialisation or open), and otherwise
\* holds a prefix of the new serialisation.
C10_FileKeptOrTruncated ==
    [][SaveFailed(outcome') =>
          /\ outcome'.exc \in {"TypeError", "OSError"}
          /\ ret' = NoneV
          /\ NewEntryAppended
          /\ \/ file' = file
             \/ /\ outcome'.exc = "OSError"
                /\ file'.exists
                /\ IsPrefix(file'.text, json_dumps(history').text)]_vars

C10_Witness ==
    /\ SaveFailed(outcome)
    /\ outcome.exc = "OSError"
    /\ Len(history) >= 2
    /\ file.exists
    /\ ~json_loads(file.text).ok
    /\ load_(file) = <<>>

\* C11: after evaluations that returned, a fresh Calculator constructed over
\* the same file has the history of the first instance: same entries, same
\* order, same length.
C11_FreshInstanceHasSameHistory ==
    [][(Returned(outcome) /\ outcome'.op = "init") => history' = history]_vars

\* C14: once this instance has saved, the sequence of its last successful
\* save is a prefix of its in-memory history.
C14_LastSaveIsPrefixOfHistory ==
    lastSaved.valid => IsPrefix(lastSaved.h, history)

C14_Witness ==
    /\ lastSaved.valid
    /\ Len(lastSaved.h) >= 1
    /\ Len(history) = Len(lastSaved.h) + 1
    /\ IsPrefix(lastSaved.h, history)
    /\ SaveFailed(outcome)

\* C15: every value a successful evaluation returned or recorded is a number.
C15_ResultsAreNumbers ==
    /\ ret.t \in {"int", "none"}
    /\ \A i \in 1..Len(history) : history[i][2].t = "int"
    /\ \A i \in 1..Len(load_(file)) : load_(file)[i][2].t = "int"

SyntaxInvalid(f) == f.exists /\ ~json_loads(f.text).ok

\* C12: constructing a manager never raises and never changes the file; on
\* an absent file or one that is not valid JSON the collection starts empty.
C12_ConstructorsNeverRaise ==
    [][/\ outcome'.op = "init" =>
             /\ outcome'.exc = "" /\ file' = file
             /\ (~file.exists \/ SyntaxInvalid(file)) => history' = <<>>
       /\ mgrOut'.op = "task_init" =>
             /\ mgrOut'.exc = "" /\ file' = file
             /\ (~file.exists \/ SyntaxInvalid(file)) => tasks' = <<>>
       /\ mgrOut'.op = "notes_init" =>
             /\ mgrOut'.exc = "" /\ file' = file
             /\ (~file.exists \/ SyntaxInvalid(file)) => notes' = <<>>
       /\ mgrOut'.op = "habits_init" =>
             /\ mgrOut'.exc = "" /\ file' = file
             /\ (~file.exists \/ SyntaxInvalid(file)) => habits' = EmptyDict]_vars

C12_Witness ==
    /\ SyntaxInvalid(file)
    /\ Len(file.text) = 3
    /\ outcome.op = "init" /\ history = <<>>
    /\ mgrOut.op = "task_init" /\ mgrOut.exc = "" /\ tasks = <<>>

\* the shape _save writes: a list of two-field [string, number] records
WellShaped(doc) ==
    /\ doc.t = "list"
    /\ \A i \in 1..Len(doc.items) :
          /\ doc.items[i].t = "list"
          /\ Len(doc.items[i].items) = 2
          /\ doc.items[i].items[1].t = "str"
          /\ doc.items[i].items[2].t = "int"

\* C13: a Calculator constructed on a file of well-formed JSON that is not
\* a list of two-field [expression, result] records starts with an empty
\* history.
C13_WrongShapeStartsEmpty ==
    (/\ outcome.op = "init"
     /\ file.exists
     /\ json_loads(file.text).ok
     /\ ~WellShaped(json_loads(file.text).val)) => history = <<>>

Mine == IF who = 1 THEN history ELSE history2
Theirs == IF who = 1 THEN history2 ELSE history

\* C16: with two instances on one file, an eval that returns leaves in the
\* file exactly the history of the instance it was called on, whatever the
\* other instance holds: the last writer wins.
C16_LastWriterWins ==
    [][Returned(outcome') =>
          /\ file'.exists
          /\ load_(file') = Mine'
          /\ who' = 1 => history2' = history2
          /\ who' = 2 => history' = history]_vars

C16_Witness ==
    /\ Returned(outcome)
    /\ load_(file) = Mine
    /\ Len(Theirs) = 2
    /\ \A i \in 1..Len(Mine) : Mine[i] # Theirs[2]
    /\ lastSaved.valid /\ who = 2

(* ------------------------ TaskManager properties ------------------------ *)
IdsOf(ts) == {ts[i].id.n : i \in 1..Len(ts)}
LargestId(ts) == CHOOSE m \in IdsOf(ts) : \A x \in IdsOf(ts) : x <= m
\* the file holds exactly the list ts
Persisted(f, ts) == f.exists /\ tasks_load(f) = NoExc(ts)

\* C17: an add that returns gives the new task the id 1 + the largest id of
\* the list before the call (1 when the list was empty), appends the task it
\* returns to the list, and has written the new list to the file.
C17_AddAssignsNextId ==
    [][(mgrOut'.op = "add" /\ mgrOut'.exc = "") =>
          /\ mgrOut'.ret.id = IntV(IF tasks = <<>> THEN 1 ELSE 1 + LargestId(tasks))
          /\ tasks' = Append(tasks, mgrOut'.ret)
          /\ Persisted(file', tasks')]_vars

\* an add on a list whose largest id is not its length: ids 2 and 3
C17_Witness ==
    /\ mgrOut.op = "add" /\ mgrOut.exc = ""
    /\ Len(tasks) = 2
    /\ tasks[1].id = IntV(2)
    /\ mgrOut.ret.id = IntV(3)
    /\ tasks[2] = mgrOut.ret
    /\ Persisted(file, tasks)

IdKnown(ts, id) == \E i \in 1..Len(ts) : ts[i].id = IntV(id)
Flipped(t) == [t EXCEPT !.done = BoolV(t.done = BoolV(FALSE))]
\* ts2 is ts with the task at one position holding the id replaced by what
\* Change makes of it
OnlyOneChanged(ts, ts2, id, Change(_)) ==
    /\ Len(ts2) = Len(ts)
    /\ \E p \in 1..Len(ts) :
          /\ ts[p].id = IntV(id)
          /\ ts2[p] = Change(ts[p])
          /\ \A i \in 1..Len(ts) : i # p => ts2[i] = ts[i]
Edited(t, fields) ==
    [f \in TaskFields |->
        IF f \in DOMAIN fields THEN (IF fields[f] = NoneV THEN t[f] ELSE fields[f])
        ELSE t[f]]

\* C18: toggle, delete and edit with an id no task has return False and leave
\* the list and the file as they were; with an id some task has they return
\* True, leave every other task as it was (toggle flips done of the task,
\* delete removes it, edit sets the given fields whose value is not None) and
\* the file holds the new list.
C18_UnknownIdIsNoOp ==
    [][(mgrOut'.op \in {"toggle", "delete", "edit"} /\ mgrOut'.exc = "") =>
          LET id == mgrOut'.id
          IN IF ~IdKnown(tasks, id)
             THEN mgrOut'.ret = BoolV(FALSE) /\ tasks' = tasks /\ file' = file
             ELSE /\ mgrOut'.ret = BoolV(TRUE)
                  /\ Persisted(file', tasks')
                  /\ mgrOut'.op = "toggle" =>
                        OnlyOneChanged(tasks, tasks', id, Flipped)
                  /\ mgrOut'.op = "delete" =>
                        tasks' = SelectSeq(tasks, LAMBDA t : t.id # IntV(id))
                  /\ mgrOut'.op = "edit" =>
                        OnlyOneChanged(tasks, tasks', id,
                                       LAMBDA t : Edited(t, mgrOut'.fields))]_vars

\* an edit that gave a priority and None for the title, beside another task
C18_Witness ==
    /\ mgrOut.op = "edit" /\ mgrOut.ret = BoolV(TRUE)
    /\ mgrOut.fields = [priority |-> IntV(9), title |-> NoneV]
    /\ mgrOut.id = 2
    /\ Len(tasks) = 2
    /\ tasks[1].id = IntV(1) /\ tasks[1].priority = IntV(1)
    /\ tasks[2].id = IntV(2) /\ tasks[2].priority = IntV(9) /\ tasks[2].title = TitleA
    /\ Persisted(file, tasks)

(* ------------------------ TicTacToe ------------------------------------- *)
\* move is called with a position in -1..MaxPos
MaxPos == 9
Positions == -1..MaxPos

\* a move that leaves the turn with the player who moved
move_KeepTurn(b, cur, pos) ==
    IF 0 <= pos /\ pos <= 8 /\ b[pos] = " "
    THEN [board |-> [b EXCEPT ![pos] = cur], current |-> cur, ret |-> BoolV(TRUE)]
    ELSE [board |-> b, current |-> cur, ret |-> BoolV(FALSE)]

\* a move that does not look at the cell
move_Overwrite(b, cur, pos) ==
    IF 0 <= pos /\ pos <= 8
    THEN [board |-> [b EXCEPT ![pos] = cur],
          current |-> IF cur = "X" THEN "O" ELSE "X",
          ret |-> BoolV(TRUE)]
    ELSE [board |-> b, current |-> cur, ret |-> BoolV(FALSE)]

\* TicTacToe.move(pos): the board, the current player and the value returned
move(b, cur, pos) ==
    IF 0 <= pos /\ pos <= 8 /\ b[pos] = " "
    THEN [board |-> [b EXCEPT ![pos] = cur],
          current |-> IF cur = "X" THEN "O" ELSE "X",
          ret |-> BoolV(TRUE)]
    ELSE [board |-> b, current |-> cur, ret |-> BoolV(FALSE)]

\* wins, in the order of the list
wins == << <<0, 1, 2>>, <<3, 4, 5>>, <<6, 7, 8>>,
          <<0, 3, 6>>, <<1, 4, 7>>, <<2, 5, 8>>,
          <<0, 4, 8>>, <<2, 4, 6>> >>
\* the test of the loop of winner for the line (a, b, c)
Complete(b, w) == b[w[1]] # " " /\ b[w[1]] = b[w[2]] /\ b[w[2]] = b[w[3]]
\* " " not in self.board
Full(b) == \A c \in Cells : b[c] # " "

\* a winner that looks for the draw before it looks at the lines
winner_DrawFirst(b) ==
    LET hit == {i \in 1..Len(wins) : Complete(b, wins[i])}
    IN IF Full(b) THEN StrV("empate")
       ELSE IF hit # {}
            THEN StrV(b[wins[CHOOSE i \in hit : \A j \in hit : i <= j][1]])
            ELSE NoneV

\* TicTacToe.winner(): the mark of the first complete line of wins, else
\* "empate" on a full board, else None
winner(b) ==
    LET hit == {i \in 1..Len(wins) : Complete(b, wins[i])}
    IN IF hit # {}
       THEN StrV(b[wins[CHOOSE i \in hit : \A j \in hit : i <= j][1]])
       ELSE IF Full(b) THEN StrV("empate") ELSE NoneV

\* ttt.move(pos)
Move(pos) ==
    /\ LET m == move(board, current, pos)
       IN /\ board' = m.board
          /\ current' = m.current
          /\ gameOut' = GameOut("move", pos, m.ret)
    /\ UNCHANGED <<calcVars, mgrVars, timerVars>>

\* ttt.winner()
Winner ==
    /\ gameOut' = GameOut("winner", 0, winner(board))
    /\ UNCHANGED <<calcVars, mgrVars, board, current, timerVars>>

NextGame == \E pos \in Positions : Move(pos)

\* a new game and any sequence of move calls
SpecGame == Init /\ [][NextGame]_vars

\* board is a public attribute that callers assign: every list of nine
\* cells
Boards == [Cells -> Marks \cup {" "}]

\* a game whose board holds any nine cells
InitBoard ==
    /\ SAFE_NAMES = InitialSafeNames
    /\ file = NoFile
    /\ history = load_(NoFile)
    /\ outcome = Outcome("init", NoExpr, 0, "done", "")
    /\ ret = NoneV
    /\ retList = <<>>
    /\ alias = FALSE
    /\ nOk = 0
    /\ startedEmpty = TRUE
    /\ lastSaved = NotSaved
    /\ history2 = <<>>
    /\ who = 1
    /\ MgrIdle
    /\ board \in Boards
    /\ current = "X"
    /\ gameOut = GameOut("none", 0, NoneV)
    /\ TimerIdle

NextBoard == Winner

SpecBoard == InitBoard /\ [][NextBoard]_vars

(* ------------------------ TicTacToe properties -------------------------- *)
\* C19: a move is accepted exactly when its position is one of 0..8 and the
\* cell there is empty; an accepted move returns True, puts the mark of the
\* current player in that cell, changes no other cell and hands the turn to
\* the other player; a rejected move returns False and changes neither the
\* board nor the current player; no move changes a filled cell.
C19_MoveOnlyOnEmptyCell ==
    [][gameOut'.op = "move" =>
          LET pos == gameOut'.pos
          IN /\ IF pos \in Cells /\ board[pos] = " "
                THEN /\ gameOut'.ret = BoolV(TRUE)
                     /\ board'[pos] = current
                     /\ \A c \in Cells \ {pos} : board'[c] = board[c]
                     /\ current' \in Marks \ {current}
                ELSE /\ gameOut'.ret = BoolV(FALSE)
                     /\ board' = board
                     /\ current' = current
             /\ \A c \in Cells : board[c] # " " => board'[c] = board[c]]_vars

\* a move onto the cell X has taken is rejected, O still to play
C19_Witness ==
    /\ gameOut = GameOut("move", 0, BoolV(FALSE))
    /\ board = [NewBoard EXCEPT ![0] = "X"]
    /\ current = "O"

\* the eight lines: three rows, three columns, two diagonals
Lines == {{0, 1, 2}, {3, 4, 5}, {6, 7, 8},
          {0, 3, 6}, {1, 4, 7}, {2, 5, 8},
          {0, 4, 8}, {2, 4, 6}}
Fills(m, b) == \E L \in Lines : \A c \in L : b[c] = m
NoSpace(b) == \A c \in Cells : b[c] \in Marks
FilledBy(m, b) == {L \in Lines : \A c \in L : b[c] = m}
Least(L) == CHOOSE c \in L : \A d \in L : c <= d

\* C20 as stated: after winner(), the value returned is a mark exactly when
\* that mark fills one of the eight lines, "empate" exactly when the board
\* is full and no line is filled, and None otherwise.
C20_WinnerIsTheMarkOfALine ==
    gameOut.op = "winner" =>
        /\ \A m \in Marks : gameOut.ret = StrV(m) <=> Fills(m, board)
        /\ gameOut.ret = StrV("empate") <=>
              (NoSpace(board) /\ \A m \in Marks : ~Fills(m, board))
        /\ gameOut.ret = NoneV <=>
              (~NoSpace(board) /\ \A m \in Marks : ~Fills(m, board))

\* C20 (amended): after winner(), the value returned is a mark exactly when
\* some mark fills one of the eight lines, and it is then a mark that fills
\* a line; when both marks fill a line (two rows or two columns) it is the
\* mark of the topmost filled row or the leftmost filled column. It is
\* "empate" exactly when the board is full and no line is filled, and None
\* exactly when the board has an empty cell and no line is filled.
C20_WinnerIsTheMarkOfTheFirstLine ==
    gameOut.op = "winner" =>
        /\ (\E m \in Marks : gameOut.ret = StrV(m)) <=>
              (\E m \in Marks : Fills(m, board))
        /\ \A m \in Marks : gameOut.ret = StrV(m) =>
              \E L \in FilledBy(m, board) :
                  \A o \in Marks \ {m} : \A K \in FilledBy(o, board) :
                      Least(L) < Least(K)
        /\ gameOut.ret = StrV("empate") <=>
              (NoSpace(board) /\ \A m \in Marks : ~Fills(m, board))
        /\ gameOut.ret = NoneV <=>
              (~NoSpace(board) /\ \A m \in Marks : ~Fills(m, board))

\* a full board where O fills the top row and X the bottom row: winner()
\* has returned "O"
C20_Witness ==
    /\ gameOut = GameOut("winner", 0, StrV("O"))
    /\ board = [c \in Cells |-> IF c \in {0, 1, 2, 4} THEN "O" ELSE "X"]

(* ------------------------ Timer ----------------------------------------- *)
\* pomodoro is called with work and short_break in 0..MaxMinutes
MaxMinutes == 2
\* ... and with cycles in -1..MaxCycles
MaxCycles == 3

\* Timer.countdown(seconds), called for the work or for the break of a cycle
Countdown(kind, seconds) == [kind |-> kind, seconds |-> seconds]

\* a break after every cycle, the last included
BreakDueAlways(i, cycles) == i <= cycles

\* pomodoro, line 519: if i < cycles
BreakDue(i, cycles) == i < cycles

\* Timer.pomodoro(work, short_break, cycles) is called
PomStart(work, short_break, cycles) ==
    /\ pom.pc \in {"idle", "done"}
    /\ pom' = Pom("loop", work, short_break, cycles, 1)
    /\ called' = <<>>
    /\ UNCHANGED <<calcVars, mgrVars, gameVars>>

\* an iteration of the loop begins: Timer.countdown(work * 60) runs and
\* returns (at zero, or on KeyboardInterrupt, which countdown catches)
PomWork ==
    /\ pom.pc = "loop"
    /\ pom.i <= pom.cycles
    /\ called' = Append(called, Countdown("work", pom.work * 60))
    /\ pom' = [pom EXCEPT !.pc = "worked"]
    /\ UNCHANGED <<calcVars, mgrVars, gameVars>>

\* the rest of the iteration: Timer.countdown(short_break * 60) when i < cycles
PomBreak ==
    /\ pom.pc = "worked"
    /\ called' = IF BreakDue(pom.i, pom.cycles)
                 THEN Append(called, Countdown("break", pom.short_break * 60))
                 ELSE called
    /\ pom' = [pom EXCEPT !.pc = "loop", !.i = pom.i + 1]
    /\ UNCHANGED <<calcVars, mgrVars, gameVars>>

\* range(1, cycles + 1) is exhausted: the last print, and pomodoro returns
PomEnd ==
    /\ pom.pc = "loop"
    /\ pom.i > pom.cycles
    /\ pom' = [pom EXCEPT !.pc = "done"]
    /\ UNCHANGED <<calcVars, mgrVars, gameVars, called>>

PomRun == PomWork \/ PomBreak \/ PomEnd

NextTimer ==
    \/ \E work \in 0..MaxMinutes, short_break \in 0..MaxMinutes, cycles \in -1..MaxCycles :
          PomStart(work, short_break, cycles)
    \/ PomWork
    \/ PomBreak
    \/ PomEnd

\* a call of pomodoro that has begun goes on: the statements of a function
\* run one after the other, and every countdown returns
SpecTimer == Init /\ [][NextTimer]_vars /\ WF_vars(PomRun)

(* ------------------------ Timer properties ------------------------------ *)
\* the countdowns of pomodoro(work, short_break, cycles): 2*cycles - 1 of
\* them, work at the odd places and break at the even ones
Expected(work, short_break, cycles) ==
    IF cycles < 1 THEN <<>>
    ELSE [k \in 1..(2 * cycles - 1) |->
             IF k % 2 = 1 THEN Countdown("work", work * 60)
             ELSE Countdown("break", short_break * 60)]
PomRunning == pom.pc \notin {"idle", "done"}

\* C21: while pomodoro runs, the countdowns made so far are the first ones
\* of the sequence work, break, work, ..., work of 2*cycles - 1 countdowns
\* (work*60 and short_break*60 seconds; none when cycles < 1); when it has
\* returned they are the whole sequence; and a call that has begun returns.
C21_PomodoroOrderAndEnd ==
    /\ [](PomRunning =>
            IsPrefix(called, Expected(pom.work, pom.short_break, pom.cycles)))
    /\ [](pom.pc = "done" => called = Expected(pom.work, pom.short_break, pom.cycles))
    /\ [](PomRunning => <>(pom.pc = "done"))

\* pomodoro(1, 2, 2) has returned after countdowns of 60, 120 and 60 seconds
C21_Witness ==
    /\ pom = Pom("done", 1, 2, 2, 3)
    /\ called = <<Countdown("work", 60), Countdown("break", 120), Countdown("work", 60)>>

(* ------------------------ evaluator phases ------------------------------ *)
\* C22: the first failing phase decides the failure of an eval: text that
\* does not parse fails with SyntaxError at the parse, whatever names it
\* mentions; a parsable expression that mentions a name outside the
\* allow-list fails at the name check with the unsafe-name error, whatever
\* its computation would do; and a failure of the evaluation is reported
\* only for parsable expressions all of whose names are allow-listed.
C22_FirstFailingPhaseDecides ==
    [][outcome'.op = "eval" =>
          LET e == outcome'.expr
          IN /\ HasBad(e) =>
                  (outcome'.phase = "parse" /\ outcome'.exc = "SyntaxError")
             /\ (~HasBad(e) /\ AllNames(e) \ SafeNameSet # {}) =>
                  (outcome'.phase = "check" /\ outcome'.exc = "NameError")
             /\ outcome'.phase = "eval" =>
                  (~HasBad(e) /\ AllNames(e) \subseteq SafeNameSet)]_vars

(* ------------------------ an eval after a failed eval ------------------- *)
RECURSIVE Arithmetic(_)
\* an expression made of numbers, operators and calls of allow-listed names
Arithmetic(e) ==
    CASE e.op = "num" -> TRUE
      [] e.op = "name" -> e.id \in SafeNameSet
      [] e.op = "bin" -> Arithmetic(e.l) /\ Arithmetic(e.r)
      [] e.op = "call" ->
            /\ e.fn.op = "name" /\ e.fn.id \in SafeNameSet
            /\ \A i \in 1..Len(e.args) : Arithmetic(e.args[i])
      [] OTHER -> FALSE
\* ... that has a value at process start
ValidArithmetic(e) == Arithmetic(e) /\ safe_eval(e, InitialSafeNames).ok

\* C23: an eval of a valid, allow-listed arithmetic expression that follows
\* an eval that raised (in safe_eval or in _save) returns the value of the
\* expression and leaves the file holding the history, unless the write to
\* the file itself fails.
C23_FailureDoesNotSpread ==
    [][(/\ outcome.op = "eval" /\ ~Returned(outcome)
        /\ outcome'.op = "eval"
        /\ ValidArithmetic(outcome'.expr)
        /\ outcome'.exc # "OSError") =>
          /\ Returned(outcome')
          /\ ret' = safe_eval(outcome'.expr, InitialSafeNames).val
          /\ file'.exists
          /\ load_(file') = history']_vars

(* ------------------------ TaskManager invariants ------------------------ *)
\* C24: whatever add, toggle, delete and edit calls have been made, no two
\* tasks of the list have the same id.
C24_IdsAreUnique ==
    \A i, j \in 1..Len(tasks) : i # j => tasks[i].id # tasks[j].id

\* C25: whatever add and edit calls have been made, the priority of every
\* task of the list is one of 1..5.
C25_PriorityWithinRange ==
    \A i \in 1..Len(tasks) :
        tasks[i].priority.t = "int" /\ tasks[i].priority.n \in 1..5

(* ------------------------ TicTacToe invariants -------------------------- *)
Count(m, b) == Cardinality({c \in Cells : b[c] = m})

\* C26: in every state a new game reaches by move calls, the board holds as
\* many X as O or one X more and X is to play exactly when they are as many;
\* every accepted move adds one mark to a board that had fewer than 9 and
\* every rejected move adds none, so that at most 9 moves are accepted.
C26_MarksAlternate ==
    /\ [](/\ Count("X", board) - Count("O", board) \in {0, 1}
          /\ current \in Marks
          /\ current = "X" <=> Count("X", board) = Count("O", board))
    /\ [][gameOut'.op = "move" =>
            LET n == Count("X", board) + Count("O", board)
                n2 == Count("X", board') + Count("O", board')
            IN IF gameOut'.ret = BoolV(TRUE) THEN n < 9 /\ n2 = n + 1
               ELSE n2 = n]_vars

\* a full board: five X, four O, O to play, and the last move was rejected
C26_Witness ==
    /\ Count("X", board) = 5 /\ Count("O", board) = 4
    /\ current = "O"
    /\ gameOut.op = "move" /\ gameOut.ret = BoolV(FALSE)

====
